---- MODULE Spec2Model ----
(***************************************************************************)
(* Model of convert_md_to_ipynb.py: the markdown segmentation scan of      *)
(* convert_markdown_to_notebook and the command-line driver main.          *)
(*                                                                         *)
(* A text is a sequence of tokens.  The tokens are the characters and      *)
(* character groups the code distinguishes: the newline "\n", the space    *)
(* " ", the triple backtick (written "BT3"), the language tag "python"     *)
(* and an ordinary character "x".  A line is a sequence of tokens without  *)
(* "\n".                                                                   *)
(***************************************************************************)
EXTENDS Integers, Sequences, FiniteSets, TLC

\* ------------------------------------------------------------------ bounds
MaxLines == 5
MaxLinesPar == 2

\* ------------------------------------------------------------ string model
NL == "\n"
SP == " "
Fence == <<"BT3">>
FencePython == <<"BT3", "python">>
Whitespace == {SP, NL}

MinOf(S) == CHOOSE m \in S : \A n \in S : m <= n
MaxOf(S) == CHOOSE m \in S : \A n \in S : m >= n

\* str.strip(chars): drop the leading and trailing characters that are in cs
StripSet(s, cs) ==
    LET keep == {k \in 1..Len(s) : s[k] \notin cs}
    IN  IF keep = {} THEN <<>> ELSE SubSeq(s, MinOf(keep), MaxOf(keep))

\* StripNL with a fault: str.strip() with no argument strips all whitespace
StripAllWhitespace(s) == StripSet(s, Whitespace)

\* content.strip("\n")
StripNL(s) == StripSet(s, {NL})

\* line.strip()
Strip(s) == StripSet(s, Whitespace)

\* str.startswith(prefix)
StartsWith(s, p) == Len(s) >= Len(p) /\ SubSeq(s, 1, Len(p)) = p

\* "\n".join(ls)
RECURSIVE JoinNL(_)
JoinNL(ls) ==
    IF ls = <<>> THEN <<>>
    ELSE IF Len(ls) = 1 THEN ls[1]
    ELSE ls[1] \o <<NL>> \o JoinNL(Tail(ls))

\* str.splitlines(): split at every "\n"; a final "\n" opens no further line
RECURSIVE SplitLines(_)
SplitLines(t) ==
    IF t = <<>> THEN <<>>
    ELSE LET nls == {k \in 1..Len(t) : t[k] = NL}
         IN  IF nls = {} THEN <<t>>
             ELSE LET k == MinOf(nls)
                  IN  <<SubSeq(t, 1, k - 1)>> \o SplitLines(SubSeq(t, k + 1, Len(t)))

\* ------------------------------------------------------------------ inputs
LineChoices ==
    { <<>>, <<SP>>, <<"x">>, <<"BT3", "python">>, <<"BT3">>, <<SP, "BT3", "x">> }
LineChoicesPar == { <<"x">>, <<"BT3", "python">>, <<"BT3">> }

Texts(n, choices) ==
    { JoinNL(ls) : ls \in UNION { [1..k -> choices] : k \in 0..n } }

\* the names of the invocations that can run
InvIds == {1, 2}

Responses == {"y", "Y", "yes", "Yes", "n", "no", ""}

\* ------------------------------------------------------------------- state
VARIABLES
    invs,           \* the running invocations of convert_markdown_to_notebook
    markdown_text,  \* per invocation: the text read from the input file
    lines,          \* per invocation: markdown_text.splitlines()
    idx,            \* per invocation: index of the next line the loop takes
    pc,             \* per invocation: position in the function
    cells,          \* per frame: the cells emitted so far
    current_lines,  \* per frame: the buffer of the current cell
    cell_type,      \* per frame: "markdown" or "code"
    flushed_at,     \* per frame: for each emitted cell, the idx at its flush
    mpc,            \* main: position
    args,           \* main: the command line and the file system it meets
    prompt,         \* main: the last question asked with input(), or "none"
    response,       \* main: the last answer read by input(), or "none"
    exit_status,    \* main: "none", 0 or 1
    convert_called  \* main: convert_markdown_to_notebook was called

scan_vars == <<invs, markdown_text, lines, idx, pc, cells, current_lines, cell_type, flushed_at>>
main_vars == <<mpc, args, prompt, response, exit_status, convert_called>>
vars == <<invs, markdown_text, lines, idx, pc, cells, current_lines, cell_type,
          flushed_at, mpc, args, prompt, response, exit_status, convert_called>>

\* --------------------------------------------------------------- the cells
new_code_cell(content) ==
    [cell_type |-> "code", source |-> content, execution_count |-> "None", outputs |-> <<>>]

new_markdown_cell(content) ==
    [cell_type |-> "markdown", source |-> content]

\* The closed-over variables of flush_current_cell as one value
Locals(cs, buf, type) == [cells |-> cs, current_lines |-> buf, cell_type |-> type]

\* flush_current_cell with a fault: the code branch forgotten
flush_markdown_only(st) ==
    IF st.current_lines = <<>> THEN st
    ELSE Locals(Append(st.cells, new_markdown_cell(StripNL(JoinNL(st.current_lines)))),
                <<>>, st.cell_type)

flush_current_cell(st) ==
    IF st.current_lines = <<>> THEN st
    ELSE LET content == StripNL(JoinNL(st.current_lines))
             cell == IF st.cell_type = "code" THEN new_code_cell(content)
                     ELSE new_markdown_cell(content)
         IN  Locals(Append(st.cells, cell), <<>>, st.cell_type)

\* Branch with a fault: the fence tests on the unstripped line
BranchNoStrip(line) ==
    IF StartsWith(line, FencePython) THEN "open"
    ELSE IF StartsWith(line, Fence) /\ ~StartsWith(line, FencePython) THEN "close"
    ELSE "content"

\* The if / elif / else tests of the loop body
Branch(line) ==
    IF StartsWith(Strip(line), FencePython) THEN "open"
    ELSE IF StartsWith(Strip(line), Fence) /\ ~StartsWith(Strip(line), FencePython)
         THEN "close"
    ELSE "content"

\* LoopBody with a fault: the opening fence acts only outside a code block
LoopBodyOpenGated(line, st) ==
    IF Branch(line) = "open" /\ st.cell_type # "code"
      THEN [flush_current_cell(st) EXCEPT !.cell_type = "code"]
    ELSE IF Branch(line) = "close"
      THEN [flush_current_cell(st) EXCEPT !.cell_type = "markdown"]
    ELSE [st EXCEPT !.current_lines = Append(@, line)]

\* LoopBody with a fault: the closing fence acts only inside a code block
LoopBodyCloseGated(line, st) ==
    IF Branch(line) = "open"
      THEN [flush_current_cell(st) EXCEPT !.cell_type = "code"]
    ELSE IF Branch(line) = "close" /\ st.cell_type = "code"
      THEN [flush_current_cell(st) EXCEPT !.cell_type = "markdown"]
    ELSE [st EXCEPT !.current_lines = Append(@, line)]

\* LoopBody with a fault: the opening fence forgets to switch to "code"
LoopBodyOpenKeepsKind(line, st) ==
    IF Branch(line) = "open"
      THEN flush_current_cell(st)
    ELSE IF Branch(line) = "close"
      THEN [flush_current_cell(st) EXCEPT !.cell_type = "markdown"]
    ELSE [st EXCEPT !.current_lines = Append(@, line)]

\* One iteration of "for line in markdown_text.splitlines()"
LoopBody(line, st) ==
    IF Branch(line) = "open"
      THEN [flush_current_cell(st) EXCEPT !.cell_type = "code"]
    ELSE IF Branch(line) = "close"
      THEN [flush_current_cell(st) EXCEPT !.cell_type = "markdown"]
    ELSE [st EXCEPT !.current_lines = Append(@, line)]

\* Frame with a fault: the buffer variables are module globals shared by all calls
FrameShared(i) == MinOf(invs)

\* The frame that holds cells, current_lines and cell_type of invocation i:
\* they are locals of the call, reached by the helper through nonlocal
Frame(i) == i

FrameState(i) == Locals(cells[Frame(i)], current_lines[Frame(i)], cell_type[Frame(i)])

\* Write st back to the frame of invocation i, noting where each new cell was flushed
Store(i, st) ==
    /\ cells' = [cells EXCEPT ![Frame(i)] = st.cells]
    /\ current_lines' = [current_lines EXCEPT ![Frame(i)] = st.current_lines]
    /\ cell_type' = [cell_type EXCEPT ![Frame(i)] = st.cell_type]
    /\ flushed_at' = [flushed_at EXCEPT ![Frame(i)] =
                        IF Len(st.cells) > Len(cells[Frame(i)])
                        THEN Append(@, idx[i]) ELSE @]

\* ------------------------------------------------- convert_markdown_to_notebook
\* read_text succeeds; the locals are initialised and the text is split
ReadText(i) ==
    /\ i \in invs
    /\ pc[i] = "read"
    /\ lines' = [lines EXCEPT ![i] = SplitLines(markdown_text[i])]
    /\ idx' = [idx EXCEPT ![i] = 1]
    /\ pc' = [pc EXCEPT ![i] = "scan"]
    /\ cells' = [cells EXCEPT ![Frame(i)] = <<>>]
    /\ current_lines' = [current_lines EXCEPT ![Frame(i)] = <<>>]
    /\ cell_type' = [cell_type EXCEPT ![Frame(i)] = "markdown"]
    /\ flushed_at' = [flushed_at EXCEPT ![Frame(i)] = <<>>]
    /\ UNCHANGED <<invs, markdown_text>>
    /\ UNCHANGED main_vars

\* read_text raises FileNotFoundError or UnicodeDecodeError: sys.exit(1)
ReadError(i) ==
    /\ i \in invs
    /\ pc[i] = "read"
    /\ pc' = [pc EXCEPT ![i] = "exit1"]
    /\ UNCHANGED <<invs, markdown_text, lines, idx, cells, current_lines, cell_type, flushed_at>>
    /\ UNCHANGED main_vars

\* the loop has a line to take
InLoop(i) ==
    /\ i \in invs
    /\ pc[i] = "scan"
    /\ idx[i] <= Len(lines[i])

\* the loop body runs on the line and the loop moves on
Iterate(i) ==
    /\ Store(i, LoopBody(lines[i][idx[i]], FrameState(i)))
    /\ idx' = [idx EXCEPT ![i] = @ + 1]
    /\ UNCHANGED <<invs, markdown_text, lines, pc>>
    /\ UNCHANGED main_vars

\* the line starts a python code block
OpenFence(i) ==
    /\ InLoop(i)
    /\ Branch(lines[i][idx[i]]) = "open"
    /\ Iterate(i)

\* the line starts with a fence that is not the python fence
CloseFence(i) ==
    /\ InLoop(i)
    /\ Branch(lines[i][idx[i]]) = "close"
    /\ Iterate(i)

\* a regular content line
ContentLine(i) ==
    /\ InLoop(i)
    /\ Branch(lines[i][idx[i]]) = "content"
    /\ Iterate(i)

\* the flush after the loop
FinalFlush(i) ==
    /\ i \in invs
    /\ pc[i] = "scan"
    /\ idx[i] = Len(lines[i]) + 1
    /\ Store(i, flush_current_cell(FrameState(i)))
    /\ pc' = [pc EXCEPT ![i] = "write"]
    /\ UNCHANGED <<invs, markdown_text, lines, idx>>
    /\ UNCHANGED main_vars

\* the notebook is built and written
WriteNotebook(i) ==
    /\ i \in invs
    /\ pc[i] = "write"
    /\ pc' = [pc EXCEPT ![i] = "returned"]
    /\ UNCHANGED <<invs, markdown_text, lines, idx, cells, current_lines, cell_type, flushed_at>>
    /\ UNCHANGED main_vars

\* writing raises: sys.exit(1)
WriteError(i) ==
    /\ i \in invs
    /\ pc[i] = "write"
    /\ pc' = [pc EXCEPT ![i] = "exit1"]
    /\ UNCHANGED <<invs, markdown_text, lines, idx, cells, current_lines, cell_type, flushed_at>>
    /\ UNCHANGED main_vars

\* The scan as a function of the text: what one call computes when it runs alone
RECURSIVE ScanFrom(_, _)
ScanFrom(ls, st) ==
    IF ls = <<>> THEN st ELSE ScanFrom(Tail(ls), LoopBody(Head(ls), st))

ScanOf(ls) == ScanFrom(ls, Locals(<<>>, <<>>, "markdown"))

SegmentsOf(text) == flush_current_cell(ScanOf(SplitLines(text))).cells

\* --------------------------------------------------------------------- main
\* response.lower()
Lower(r) == CASE r = "Y" -> "y" [] r = "Yes" -> "yes" [] OTHER -> r

\* Declined with a fault: only an explicit no cancels
DeclinedOnlyNo(r) == Lower(r) \in {"n", "no"}

\* response.lower() not in ['y', 'yes']
Declined(r) == Lower(r) \notin {"y", "yes"}

Exit(status) ==
    /\ mpc' = "exited"
    /\ exit_status' = status

\* the input path does not exist: sys.exit(1)
InputMissing ==
    /\ mpc = "validate_input"
    /\ ~args.input_exists
    /\ Exit(1)
    /\ UNCHANGED <<args, prompt, response, convert_called>>
    /\ UNCHANGED scan_vars

\* the input path is not a file: sys.exit(1)
InputNotFile ==
    /\ mpc = "validate_input"
    /\ args.input_exists
    /\ ~args.input_is_file
    /\ Exit(1)
    /\ UNCHANGED <<args, prompt, response, convert_called>>
    /\ UNCHANGED scan_vars

InputValid ==
    /\ mpc = "validate_input"
    /\ args.input_exists
    /\ args.input_is_file
    /\ mpc' = "check_output"
    /\ UNCHANGED <<args, prompt, response, exit_status, convert_called>>
    /\ UNCHANGED scan_vars

\* the output does not exist, or --force was given: no prompt
OutputFree ==
    /\ mpc = "check_output"
    /\ ~(args.output_exists /\ ~args.force)
    /\ mpc' = "check_suffix"
    /\ UNCHANGED <<args, prompt, response, exit_status, convert_called>>
    /\ UNCHANGED scan_vars

\* the overwrite prompt is answered with something other than y or yes
OverwriteDeclined ==
    /\ mpc = "check_output"
    /\ args.output_exists /\ ~args.force
    /\ \E r \in Responses :
          /\ Declined(r)
          /\ response' = r
    /\ prompt' = "overwrite"
    /\ Exit(0)
    /\ UNCHANGED <<args, convert_called>>
    /\ UNCHANGED scan_vars

\* the overwrite prompt is answered with y or yes
OverwriteAccepted ==
    /\ mpc = "check_output"
    /\ args.output_exists /\ ~args.force
    /\ \E r \in Responses :
          /\ ~Declined(r)
          /\ response' = r
    /\ prompt' = "overwrite"
    /\ mpc' = "check_suffix"
    /\ UNCHANGED <<args, exit_status, convert_called>>
    /\ UNCHANGED scan_vars

SuffixOk ==
    /\ mpc = "check_suffix"
    /\ args.suffix_ipynb
    /\ mpc' = "convert"
    /\ UNCHANGED <<args, prompt, response, exit_status, convert_called>>
    /\ UNCHANGED scan_vars

\* the extension warning is answered with something other than y or yes
SuffixDeclined ==
    /\ mpc = "check_suffix"
    /\ ~args.suffix_ipynb
    /\ \E r \in Responses :
          /\ Lower(r) \notin {"y", "yes"}
          /\ response' = r
    /\ prompt' = "extension"
    /\ Exit(0)
    /\ UNCHANGED <<args, convert_called>>
    /\ UNCHANGED scan_vars

SuffixAccepted ==
    /\ mpc = "check_suffix"
    /\ ~args.suffix_ipynb
    /\ \E r \in Responses :
          /\ Lower(r) \in {"y", "yes"}
          /\ response' = r
    /\ prompt' = "extension"
    /\ mpc' = "convert"
    /\ UNCHANGED <<args, exit_status, convert_called>>
    /\ UNCHANGED scan_vars

\* convert_markdown_to_notebook(input_path, output_path) is called
CallConvert ==
    /\ mpc = "convert"
    /\ convert_called' = TRUE
    /\ mpc' = "converting"
    /\ UNCHANGED <<args, prompt, response, exit_status>>
    /\ UNCHANGED scan_vars

\* the call returns and the script ends
ConvertReturns ==
    /\ mpc = "converting"
    /\ Exit(0)
    /\ UNCHANGED <<args, prompt, response, convert_called>>
    /\ UNCHANGED scan_vars

\* the call ends the process: reading or writing failed
ConvertExits ==
    /\ mpc = "converting"
    /\ Exit(1)
    /\ UNCHANGED <<args, prompt, response, convert_called>>
    /\ UNCHANGED scan_vars

\* ---------------------------------------------------------- specifications
MainIdle ==
    /\ mpc = "off"
    /\ args = [input_exists |-> TRUE, input_is_file |-> TRUE, output_exists |-> FALSE,
               force |-> FALSE, suffix_ipynb |-> TRUE]
    /\ prompt = "none"
    /\ response = "none"
    /\ exit_status = "none"
    /\ convert_called = FALSE

InitScan(I, texts) ==
    /\ invs = I
    /\ markdown_text \in [I -> texts]
    /\ lines = [i \in I |-> <<>>]
    /\ idx = [i \in I |-> 1]
    /\ pc = [i \in I |-> "read"]
    /\ cells = [i \in I |-> <<>>]
    /\ current_lines = [i \in I |-> <<>>]
    /\ cell_type = [i \in I |-> "markdown"]
    /\ flushed_at = [i \in I |-> <<>>]

\* one call of convert_markdown_to_notebook on any text
Init == InitScan({1}, Texts(MaxLines, LineChoices)) /\ MainIdle

\* two calls, their steps interleaved
InitPar == InitScan(InvIds, Texts(MaxLinesPar, LineChoicesPar)) /\ MainIdle

\* the script started from the command line
InitMain ==
    /\ InitScan({}, {<<>>})
    /\ mpc = "validate_input"
    /\ args \in [input_exists : BOOLEAN, input_is_file : BOOLEAN, output_exists : BOOLEAN,
                 force : BOOLEAN, suffix_ipynb : BOOLEAN]
    /\ prompt = "none"
    /\ response = "none"
    /\ exit_status = "none"
    /\ convert_called = FALSE

Next ==
    \E i \in InvIds :
        \/ ReadText(i)
        \/ ReadError(i)
        \/ OpenFence(i)
        \/ CloseFence(i)
        \/ ContentLine(i)
        \/ FinalFlush(i)
        \/ WriteNotebook(i)
        \/ WriteError(i)

NextMain ==
    \/ InputMissing
    \/ InputNotFile
    \/ InputValid
    \/ OutputFree
    \/ OverwriteDeclined
    \/ OverwriteAccepted
    \/ SuffixOk
    \/ SuffixDeclined
    \/ SuffixAccepted
    \/ CallConvert
    \/ ConvertReturns
    \/ ConvertExits

Spec == Init /\ [][Next]_vars

SpecPar == InitPar /\ [][Next]_vars

SpecMain == InitMain /\ [][NextMain]_vars

\* ------------------------------------------------------------------ claims
\* The lines of the inputs by the classes the specification speaks of
OpeningFenceLines == { <<"BT3", "python">> }
BareFenceLines == { <<"BT3">>, <<SP, "BT3", "x">> }
FenceLines == OpeningFenceLines \cup BareFenceLines

\* the final flush of invocation i has run
Flushed(i) == pc[i] \in {"write", "returned"}

\* kind and content of the cells of invocation i
Segments(i) == [k \in 1..Len(cells[i]) |-> <<cells[i][k].cell_type, cells[i][k].source>>]

\* ls without the empty lines at its two ends, joined by newlines
TrimmedContent(ls) == JoinNL(StripSet(ls, {<<>>}))

HasNonEmptyLine(ls) == \E k \in 1..Len(ls) : ls[k] # <<>>

NoFenceIn(ls) == \A k \in 1..Len(ls) : ls[k] \notin FenceLines

\* invocation i takes its next line in this step
TakesLine(i) == InLoop(i) /\ idx'[i] = idx[i] + 1

\* C1: no emitted cell has empty content: a flush whose joined and stripped
\* buffer is the empty string appends nothing.
C1_NoEmptySegment ==
    \A i \in invs : \A k \in 1..Len(cells[i]) : cells[i][k].source # <<>>

\* C2 as stated: an opening fence line met while the kind is code triggers no
\* flush, changes neither the kind nor the emitted cells, and is buffered.
C2_OpenInCodeIsContent ==
    [][\A i \in invs :
          (TakesLine(i) /\ lines[i][idx[i]] \in OpeningFenceLines /\ cell_type[i] = "code")
          => /\ cells'[i] = cells[i]
             /\ cell_type'[i] = "code"
             /\ current_lines'[i] = Append(current_lines[i], lines[i][idx[i]])]_vars

\* C2 amended: an opening fence line met while the kind is code is a fence
\* event: the buffer, if it has lines, is flushed as one code cell, the buffer
\* is left empty (the fence line is not buffered) and the kind stays code.
C2_OpenInCodeFlushes ==
    [][\A i \in invs :
          (TakesLine(i) /\ lines[i][idx[i]] \in OpeningFenceLines /\ cell_type[i] = "code")
          => /\ cell_type'[i] = "code"
             /\ current_lines'[i] = <<>>
             /\ IF current_lines[i] = <<>>
                THEN cells'[i] = cells[i]
                ELSE /\ Len(cells'[i]) = Len(cells[i]) + 1
                     /\ SubSeq(cells'[i], 1, Len(cells[i])) = cells[i]
                     /\ Segments(i)'[Len(cells'[i])] =
                            <<"code", StripNL(JoinNL(current_lines[i]))>>]_vars

\* an opening fence was just taken inside a code block that held the line x
C2_Witness ==
    \E i \in invs :
        /\ pc[i] = "scan"
        /\ idx[i] >= 4
        /\ lines[i][idx[i] - 3] \in OpeningFenceLines
        /\ lines[i][idx[i] - 2] = <<"x">>
        /\ lines[i][idx[i] - 1] \in OpeningFenceLines
        /\ cells[i] # <<>>
        /\ Segments(i)[Len(cells[i])] = <<"code", <<"x">>>>
        /\ current_lines[i] = <<>>
        /\ cell_type[i] = "code"

AllWhitespace(text) == \A k \in 1..Len(text) : text[k] \in Whitespace

\* C3: an input without fence lines gives exactly one markdown cell holding the
\* input with its outer blank lines trimmed, and no cell at all when the input
\* is empty or all whitespace.
C3_NoFenceOneProse ==
    \A i \in invs :
        (Flushed(i) /\ NoFenceIn(lines[i]))
        => Segments(i) = IF AllWhitespace(markdown_text[i]) THEN <<>>
                         ELSE << <<"markdown", StripSet(markdown_text[i], {NL})>> >>

\* C4: P, opening fence, C, bare fence, Q with no other fence line, a non-empty
\* line in C, and P and Q each without lines or with a non-empty line, gives the
\* markdown cell of P (if P has lines), the code cell of C, the markdown cell of
\* Q (if Q has lines), and nothing else.
C4_OneBlock ==
    \A i \in invs :
        Flushed(i) =>
        \A o \in 1..Len(lines[i]) : \A c \in 1..Len(lines[i]) :
            LET P == SubSeq(lines[i], 1, o - 1)
                C == SubSeq(lines[i], o + 1, c - 1)
                Q == SubSeq(lines[i], c + 1, Len(lines[i]))
                prose(ls) == IF ls = <<>> THEN <<>>
                             ELSE << <<"markdown", TrimmedContent(ls)>> >>
            IN  ( /\ o < c
                  /\ lines[i][o] \in OpeningFenceLines
                  /\ lines[i][c] \in BareFenceLines
                  /\ NoFenceIn(P) /\ NoFenceIn(C) /\ NoFenceIn(Q)
                  /\ HasNonEmptyLine(C)
                  /\ P = <<>> \/ HasNonEmptyLine(P)
                  /\ Q = <<>> \/ HasNonEmptyLine(Q) )
                => Segments(i) = prose(P) \o << <<"code", TrimmedContent(C)>> >> \o prose(Q)

\* prose, an indented bare fence closing a code block, prose: three cells
C4_Witness ==
    \E i \in invs :
        /\ Flushed(i)
        /\ lines[i] = << <<"x">>, <<"BT3", "python">>, <<"x">>, <<SP, "BT3", "x">>, <<SP>> >>
        /\ Segments(i) = << <<"markdown", <<"x">>>>, <<"code", <<"x">>>>, <<"markdown", <<SP>>>> >>

\* C5: when no fence line follows an opening fence line and a non-empty line
\* does, the last cell is a code cell holding the lines after that fence,
\* joined by newlines, outer blank lines trimmed.
C5_UnterminatedBlock ==
    \A i \in invs :
        Flushed(i) =>
        \A o \in 1..Len(lines[i]) :
            LET rest == SubSeq(lines[i], o + 1, Len(lines[i]))
            IN  (lines[i][o] \in OpeningFenceLines /\ NoFenceIn(rest) /\ HasNonEmptyLine(rest))
                => /\ cells[i] # <<>>
                   /\ Segments(i)[Len(cells[i])] = <<"code", TrimmedContent(rest)>>

\* prose, then an opening fence never closed, followed by a blank line and x
C5_Witness ==
    \E i \in invs :
        /\ Flushed(i)
        /\ lines[i] = << <<"x">>, <<"BT3", "python">>, <<>>, <<"x">>, <<SP>> >>
        /\ Segments(i) = << <<"markdown", <<"x">>>>, <<"code", <<"x", NL, SP>>>> >>

\* cells k and k+1 of invocation i are both markdown cells
AdjacentProse(i, k) ==
    /\ k \in 1..(Len(cells[i]) - 1)
    /\ cells[i][k].cell_type = "markdown"
    /\ cells[i][k + 1].cell_type = "markdown"

\* C6 as stated: two markdown cells are adjacent only if an opening fence and
\* then a closing fence lie between their contents (a code block that emitted
\* nothing).
C6_AdjacentProseOnlyAroundEmptyBlock ==
    \A i \in invs : \A k \in 1..Len(cells[i]) :
        AdjacentProse(i, k)
        => \E o \in flushed_at[i][k]..(flushed_at[i][k + 1] - 1) :
           \E c \in (o + 1)..(flushed_at[i][k + 1] - 1) :
               /\ lines[i][o] \in OpeningFenceLines
               /\ lines[i][c] \in BareFenceLines

\* C6 amended: two markdown cells are adjacent only if a bare fence line lies
\* between their contents, whether it closes a code block that emitted nothing
\* or is met while the kind is already markdown.
C6_AdjacentProseOnlyAcrossBareFence ==
    \A i \in invs : \A k \in 1..Len(cells[i]) :
        AdjacentProse(i, k)
        => \E c \in flushed_at[i][k]..(flushed_at[i][k + 1] - 1) :
               lines[i][c] \in BareFenceLines

\* two markdown cells side by side, the first flushed at a bare fence line
C6_Witness ==
    \E i \in invs : \E k \in 1..Len(cells[i]) :
        /\ Flushed(i)
        /\ AdjacentProse(i, k)
        /\ lines[i][flushed_at[i][k]] \in BareFenceLines

\* invocation i flushes in this step: at a fence line or after the loop
FlushStep(i) ==
    \/ TakesLine(i) /\ lines[i][idx[i]] \in FenceLines
    \/ i \in invs /\ pc[i] = "scan" /\ pc'[i] = "write"

\* C7: flushing a buffer with a non-empty line emits the buffered lines joined
\* by newlines with only the empty lines at the two ends dropped: interior empty
\* lines, whitespace-only lines and the spaces of the lines are kept.
C7_FlushTrimsOuterBlankLines ==
    [][\A i \in invs :
          (FlushStep(i) /\ HasNonEmptyLine(current_lines[i]))
          => /\ Len(cells'[i]) = Len(cells[i]) + 1
             /\ cells'[i][Len(cells'[i])].source = TrimmedContent(current_lines[i])
             /\ current_lines'[i] = <<>>]_vars

\* the buffer "", x, "" was flushed at a fence and gave the content x
C7_Witness ==
    \E i \in invs :
        /\ pc[i] = "scan"
        /\ idx[i] = 5
        /\ lines[i] = << <<>>, <<"x">>, <<>>, <<"BT3">>, <<SP>> >>
        /\ Segments(i) = << <<"markdown", <<"x">>>> >>

\* the overwrite prompt was answered with something other than y or yes
OverwriteRefused ==
    /\ args.output_exists
    /\ ~args.force
    /\ prompt = "overwrite"
    /\ Lower(response) \notin {"y", "yes"}

\* C8 as stated: a refused overwrite ends the process with a non-zero status.
C8_RefusedOverwriteExitsNonZero ==
    OverwriteRefused => (mpc = "exited" /\ exit_status # 0 /\ ~convert_called)

\* C8 amended: a refused overwrite ends the process with status 0, and
\* convert_markdown_to_notebook is never called.
C8_RefusedOverwriteExitsZero ==
    OverwriteRefused => (mpc = "exited" /\ exit_status = 0 /\ ~convert_called)

C8_Witness ==
    OverwriteRefused /\ response = "" /\ mpc = "exited" /\ exit_status = 0

C10_BareInProseIsContent ==
    [][\A i \in invs :
          (TakesLine(i) /\ lines[i][idx[i]] \in BareFenceLines /\ cell_type[i] = "markdown")
          => /\ cells'[i] = cells[i]
             /\ cell_type'[i] = "markdown"
             /\ current_lines'[i] = Append(current_lines[i], lines[i][idx[i]])]_vars

\* C10 amended: a bare fence line is a fence event whatever the kind: met while
\* the kind is markdown it flushes the buffer, if it has lines, as one markdown
\* cell, is not buffered, and leaves the kind markdown.
C10_BareInProseFlushes ==
    [][\A i \in invs :
          (TakesLine(i) /\ lines[i][idx[i]] \in BareFenceLines /\ cell_type[i] = "markdown")
          => /\ cell_type'[i] = "markdown"
             /\ current_lines'[i] = <<>>
             /\ IF current_lines[i] = <<>>
                THEN cells'[i] = cells[i]
                ELSE /\ Len(cells'[i]) = Len(cells[i]) + 1
                     /\ SubSeq(cells'[i], 1, Len(cells[i])) = cells[i]
                     /\ Segments(i)'[Len(cells'[i])] =
                            <<"markdown", StripNL(JoinNL(current_lines[i]))>>]_vars

\* a bare fence was just taken in prose that held the line x
C10_Witness ==
    \E i \in invs :
        /\ pc[i] = "scan"
        /\ idx[i] = 3
        /\ lines[i][1] = <<"x">>
        /\ lines[i][2] \in BareFenceLines
        /\ Segments(i) = << <<"markdown", <<"x">>>> >>
        /\ current_lines[i] = <<>>
        /\ cell_type[i] = "markdown"

====
